---- MODULE Spec2Model ----
(***************************************************************************)
(* twogtp.py: a match runner that plays two GTP engines against each       *)
(* other, optionally scored by a referee engine, and writes one SGF record *)
(* per game.                                                               *)
(*                                                                         *)
(* Text is modelled as a sequence of one-character strings, so that        *)
(* startswith, rstrip, the regular expression of format_response_line,     *)
(* lower() and upper() are computed character by character.                *)
(*                                                                         *)
(* Specifications:                                                         *)
(*   SpecComm      GTPEngine.communicate (writer thread, framing loop)     *)
(*                 driven by setup_engines([black, white]), with the       *)
(*                 engine processes as concurrent writers of their stdout  *)
(*   FairSpecComm  SpecComm with weak fairness of every step               *)
(*   Spec          game_loop and the module's top-level try block          *)
(*   SpecSignal    Spec with an external interrupt signal                  *)
(*   FairSpecSignal  SpecSignal with weak fairness of the except block     *)
(*   SpecCoord     SGF.add_move_from_genmove_return on every board size    *)
(*   SpecJoin      SGF.add_move and SGF.join_all_data on bounded lists     *)
(***************************************************************************)
EXTENDS Integers, Sequences, FiniteSets

VARIABLES
    \* ---- GTPEngine sessions (SpecComm) ----
    pipe,              \* engine -> lines written to its stdout and not yet read
    eof,               \* engine -> its stdout has been closed (process exited)
    pending,           \* engine -> commands delivered on stdin and not yet answered
    threads,           \* writer threads started and not yet finished
    cpc,               \* position of the main thread inside communicate
    cmd_i,             \* setup_engines: index of the command being sent
    eng_i,             \* send_command_to_engines: index of the engine addressed
    lines,             \* read_response_lines: lines
    response_started,  \* read_response_lines: response_started
    line,              \* read_response_lines: line
    consumed,          \* lines taken from the pipe by the current read call
    \* ---- command line (lines 36-40, 214) ----
    alternate,         \* args["alternate"]
    has_referee,       \* args["referee"] is not None
    games,             \* args["games"]
    maxmoves,          \* args["maxmoves"]
    \* ---- game_loop ----
    black,             \* the engine bound to Black (1: engine_1, 2: engine_2)
    white,             \* the engine bound to White
    referee,           \* the engine that scores (1: engine_1, 3: the referee process)
    game_num,
    move_num,
    move_history,      \* list of (color, move) of the current game
    last_move_is_pass,
    response_lines,    \* what the last call of communicate for genmove or final_score returned
    gpc,               \* position of the main thread in game_loop and the try block
    log,               \* commands sent since the current game started, in order
    files,             \* the writes of dump_to_file (path and text), in order
    proc,              \* engine -> state of its process
    exit_status,       \* the status the program exited with ("none": still running)
    clock,             \* the second now_jst last returned
    interrupted,       \* KeyboardInterrupt has been raised in the main thread
    wait_i,            \* the except block's wait loop: index of the engine waited for
    \* ---- SGF ----
    sgf,               \* the SGF object of the current game
    joined,            \* what the last call of join_all_data returned
    wire               \* the last argument of add_move_from_genmove_return

commVars == <<pipe, eof, pending, threads, cpc, cmd_i, eng_i, lines,
              response_started, line, consumed>>

confVars == <<alternate, has_referee, games, maxmoves>>

sigVars == <<interrupted, wait_i>>

loopVars == <<black, white, referee, game_num, move_num, move_history,
              last_move_is_pass, response_lines, gpc, log, files, proc, exit_status,
              clock, sigVars>>

sgfVars == <<sgf, joined, wire>>

vars == <<commVars, confVars, loopVars, sgfVars>>

(***************************************************************************)
(* Bounds of the model.                                                    *)
(***************************************************************************)
MaxNoise == 1
MaxMore == 1
\* at end of file the loop of read_response_lines appends "" for ever: the
\* model stops counting the trailing "" entries of lines at this many
MaxEofRun == 2

(***************************************************************************)
(* Text.                                                                   *)
(***************************************************************************)
LowerAlpha == <<"a","b","c","d","e","f","g","h","i","j","k","l","m",
                "n","o","p","q","r","s","t","u","v","w","x","y","z">>

UpperAlpha == <<"A","B","C","D","E","F","G","H","I","J","K","L","M",
                "N","O","P","Q","R","S","T","U","V","W","X","Y","Z">>

\* str.startswith(prefix) for a one-character prefix
StartsWith(s, c) == Len(s) >= 1 /\ s[1] = c

\* the line "\n"
NewLine == <<"\n">>

\* what readline() returns at end of file: the empty string
EofLine == <<>>

LnOk == <<"=", " ", "\n">>
LnErr == <<"?", " ", "x", "\n">>
LnNoise == <<"l", "o", "g", "\n">>
LnMore == <<"m", "o", "r", "e", "\n">>

RECURSIVE Repeat(_, _)
Repeat(x, n) == IF n = 0 THEN <<>> ELSE <<x>> \o Repeat(x, n - 1)

\* Python's None
NoneVal == <<"None">>

\* the characters \s matches
IsSpace(c) == c \in {" ", "\n", "\t", "\r"}

\* str.rstrip()
RECURSIVE RStrip(_)
RStrip(s) ==
    IF s /= <<>> /\ IsSpace(s[Len(s)]) THEN RStrip(SubSeq(s, 1, Len(s) - 1)) ELSE s

\* re.sub(r"^[\s=]*", "", s)
RECURSIVE StripLeadingSpaceEq(_)
StripLeadingSpaceEq(s) ==
    IF s /= <<>> /\ (IsSpace(s[1]) \/ s[1] = "=") THEN StripLeadingSpaceEq(Tail(s)) ELSE s

LowerChar(c) ==
    IF \E i \in 1..26 : UpperAlpha[i] = c
      THEN LowerAlpha[CHOOSE i \in 1..26 : UpperAlpha[i] = c]
      ELSE c

UpperChar(c) ==
    IF \E i \in 1..26 : LowerAlpha[i] = c
      THEN UpperAlpha[CHOOSE i \in 1..26 : LowerAlpha[i] = c]
      ELSE c

\* str.lower()
Lower(s) == [i \in 1..Len(s) |-> LowerChar(s[i])]

\* str.upper()
Upper(s) == [i \in 1..Len(s) |-> UpperChar(s[i])]

StrPass == <<"p", "a", "s", "s">>
StrResign == <<"r", "e", "s", "i", "g", "n">>
StrVoid == <<"V", "o", "i", "d">>
StrWR == <<"W", "+", "R">>
StrBR == <<"B", "+", "R">>

Min(a, b) == IF a <= b THEN a ELSE b

(***************************************************************************)
(* class SGF.                                                              *)
(***************************************************************************)
StrKomi == <<"6", ".", "5">>
StrDate == <<"2", "0", "2", "6", "-", "0", "1", "-", "0", "1">>

\* SGF.__init__
NewSGF ==
    [gm |-> 1, ff |-> 4, ca |-> "utf-8", sz |-> 19, dt |-> NoneVal, pb |-> NoneVal,
     pw |-> NoneVal, km |-> StrKomi, re |-> NoneVal, moves |-> <<>>]

\* SGF.add_move
add_move(s, color, move) == [s EXCEPT !.moves = Append(@, <<color, move>>)]

\* string.ascii_lowercase.replace("i", "")
SkipI == SelectSeq(LowerAlpha, LAMBDA c : c /= "i")

\* list(string.ascii_lowercase.replace("i", "")[: self.sz])
genmove_column_labels(sz) == SubSeq(SkipI, 1, Min(sz, Len(SkipI)))

\* list(string.ascii_lowercase[: self.sz])
move_labels(sz) == SubSeq(LowerAlpha, 1, Min(sz, Len(LowerAlpha)))

DigitChars == <<"0", "1", "2", "3", "4", "5", "6", "7", "8", "9">>

IsDigit(c) == \E i \in 1..10 : DigitChars[i] = c

DigitVal(c) == (CHOOSE i \in 1..10 : DigitChars[i] = c) - 1

\* int(r) succeeds (on the texts of this model: a non-empty run of digits)
IntOk(r) == r /= <<>> /\ \A i \in 1..Len(r) : IsDigit(r[i])

\* int(r)
RECURSIVE IntVal(_)
IntVal(r) ==
    IF r = <<>> THEN 0
    ELSE 10 * IntVal(SubSeq(r, 1, Len(r) - 1)) + DigitVal(r[Len(r)])

\* str(n) for 0 <= n <= 99
ToDigits(n) ==
    IF n < 10 THEN <<DigitChars[n + 1]>>
    ELSE <<DigitChars[(n \div 10) + 1], DigitChars[(n % 10) + 1]>>

InSeq(x, q) == \E i \in 1..Len(q) : q[i] = x

\* list.index(x), zero-based
IndexOf(q, x) == (CHOOSE i \in 1..Len(q) : q[i] = x /\ \A j \in 1..(i - 1) : q[j] /= x) - 1

\* q[k] raises IndexError
ItemFaults(q, k) == k >= Len(q) \/ k < -Len(q)

\* q[k], zero-based; a negative k counts from the end
Item(q, k) == IF k >= 0 THEN q[k + 1] ELSE q[Len(q) + k + 1]

\* a variant that counts the rows from the bottom
RowIndexFromBottom(sz, r) == r - 1

\* the zero-based row index of add_move_from_genmove_return
RowIndex(sz, r) == sz - r

\* add_move_from_genmove_return raises (IndexError or ValueError)
ConvertFaults(sz, genmove_return) ==
    /\ genmove_return /= StrPass
    /\ \/ genmove_return = <<>>
       \/ ~InSeq(genmove_return[1], genmove_column_labels(sz))
       \/ ~IntOk(Tail(genmove_return))
       \/ ItemFaults(move_labels(sz), RowIndex(sz, IntVal(Tail(genmove_return))))

\* move = f"{move_labels[genmove_column_labels.index(c)]}{move_labels[self.sz - int(r)]}"
ConvertedMove(sz, genmove_return) ==
    <<Item(move_labels(sz), IndexOf(genmove_column_labels(sz), genmove_return[1])),
      Item(move_labels(sz), RowIndex(sz, IntVal(Tail(genmove_return))))>>

\* SGF.add_move_from_genmove_return, where it does not raise
add_move_from_genmove_return(s, color, genmove_return) ==
    IF genmove_return = StrPass
      THEN add_move(s, color, <<>>)
      ELSE add_move(s, color, ConvertedMove(s.sz, genmove_return))

\* join_all_data: the loop that counts the passes at the end of self.moves
RECURSIVE end_pass_count(_)
end_pass_count(moves) ==
    IF moves /= <<>> /\ moves[Len(moves)][2] = <<>>
      THEN 1 + end_pass_count(SubSeq(moves, 1, Len(moves) - 1))
      ELSE 0

\* a variant that trims a single pass at the end too
TrimsAnyEndPass(count) == count >= 1

\* if end_pass_count >= 2
TrimsEndPasses(count) == count >= 2

\* join_all_data: end_passes_removed_moves
end_passes_removed_moves(moves) ==
    IF TrimsEndPasses(end_pass_count(moves))
      THEN SubSeq(moves, 1, Len(moves) - end_pass_count(moves))
      ELSE moves

\* f";{c.upper()}[{move}]"
MoveNode(m) == <<";", UpperChar(m[1]), "[">> \o m[2] \o <<"]">>

\* "".join([... for c, move in ms])
RECURSIVE moves_joined(_)
moves_joined(ms) == IF ms = <<>> THEN <<>> ELSE MoveNode(Head(ms)) \o moves_joined(Tail(ms))

\* join_all_data: root_gameinfo_properties, each property as (name, value)
root_gameinfo_properties(s) ==
    <<[id |-> "GM", v |-> s.gm], [id |-> "FF", v |-> s.ff], [id |-> "CA", v |-> s.ca],
      [id |-> "SZ", v |-> s.sz]>>
    \o (IF s.dt /= NoneVal THEN <<[id |-> "DT", v |-> s.dt]>> ELSE <<>>)
    \o (IF s.pb /= NoneVal THEN <<[id |-> "PB", v |-> s.pb]>> ELSE <<>>)
    \o (IF s.pw /= NoneVal THEN <<[id |-> "PW", v |-> s.pw]>> ELSE <<>>)
    \o <<[id |-> "KM", v |-> s.km]>>
    \o (IF s.re /= NoneVal THEN <<[id |-> "RE", v |-> s.re]>> ELSE <<>>)

\* SGF.join_all_data: the document "(" root moves ")\n", as its two parts
join_all_data(s) ==
    [root |-> root_gameinfo_properties(s),
     moves |-> moves_joined(end_passes_removed_moves(s.moves))]

(***************************************************************************)
(* The values of the variables a specification does not use.               *)
(***************************************************************************)
CommIdle ==
    /\ pipe = [e \in {1, 2} |-> <<>>]
    /\ eof = [e \in {1, 2} |-> FALSE]
    /\ pending = [e \in {1, 2} |-> 0]
    /\ threads = {}
    /\ cpc = "idle"
    /\ cmd_i = 1
    /\ eng_i = 1
    /\ lines = <<>>
    /\ response_started = FALSE
    /\ line = <<>>
    /\ consumed = <<>>

LoopIdle ==
    /\ alternate = FALSE
    /\ has_referee = FALSE
    /\ games = 0
    /\ maxmoves = 0
    /\ black = 1
    /\ white = 2
    /\ referee = 1
    /\ game_num = 0
    /\ move_num = 0
    /\ move_history = <<>>
    /\ last_move_is_pass = FALSE
    /\ response_lines = <<>>
    /\ gpc = "idle"
    /\ log = <<>>
    /\ files = <<>>
    /\ proc = [e \in {1, 2} |-> "running"]
    /\ exit_status = "none"
    /\ clock = 0
    /\ interrupted = FALSE
    /\ wait_i = 1

\* join_all_data has not been called
NoDoc == [root |-> <<>>, moves |-> <<>>]

SgfIdle ==
    /\ sgf = NewSGF
    /\ joined = NoDoc
    /\ wire = NoneVal

(***************************************************************************)
(* SpecCoord: add_move_from_genmove_return called once on a new SGF object *)
(* of each board size, with each coordinate of that board and with "pass". *)
(***************************************************************************)
MaxSize == 25

Colors == {"b", "w"}

\* the wire coordinates of a board of size n
WireCoords(n) ==
    { <<SkipI[c]>> \o ToDigits(r) : c \in 1..Min(n, Len(SkipI)), r \in 1..n }

CoordInit ==
    /\ \E n \in 1..MaxSize : sgf = [NewSGF EXCEPT !.sz = n]
    /\ joined = NoDoc
    /\ wire = NoneVal
    /\ CommIdle
    /\ LoopIdle

AddMoveFromGenmoveReturn ==
    /\ wire = NoneVal
    /\ \E color \in Colors, g \in WireCoords(sgf.sz) \cup {StrPass} :
           /\ sgf' = IF ConvertFaults(sgf.sz, g)
                       THEN sgf
                       ELSE add_move_from_genmove_return(sgf, color, g)
           /\ wire' = g
    /\ UNCHANGED <<commVars, confVars, loopVars, joined>>

NextCoord == AddMoveFromGenmoveReturn

SpecCoord == CoordInit /\ [][NextCoord]_vars

(***************************************************************************)
(* SpecJoin: add_move and join_all_data on every bounded move list.        *)
(***************************************************************************)
MaxJoinLen == 4

\* persisted moves: the pass and two coordinates
JoinMoves == {<<>>, <<"a", "a">>, <<"c", "d">>}

JoinInit ==
    /\ SgfIdle
    /\ CommIdle
    /\ LoopIdle

AddMove ==
    /\ Len(sgf.moves) < MaxJoinLen
    /\ \E color \in Colors, m \in JoinMoves : sgf' = add_move(sgf, color, m)
    /\ UNCHANGED <<commVars, confVars, loopVars, joined, wire>>

JoinAllData ==
    /\ joined' = join_all_data(sgf)
    /\ UNCHANGED <<commVars, confVars, loopVars, sgf, wire>>

NextJoin == AddMove \/ JoinAllData

SpecJoin == JoinInit /\ [][NextJoin]_vars

(***************************************************************************)
(* The engine processes.  An engine answers a command it has received by   *)
(* writing lines to its stdout; what it writes is not under twogtp's       *)
(* control.  The shapes: optional diagnostic lines, a marker line,         *)
(* optional further lines, the empty line; the same with an empty line     *)
(* written first; and output cut short before the empty line.              *)
(***************************************************************************)
Framed ==
    { Repeat(LnNoise, n) \o <<mk>> \o Repeat(LnMore, m) \o <<NewLine>> :
        n \in 0..MaxNoise, mk \in {LnOk, LnErr}, m \in 0..MaxMore }

BlankFirst == { <<NewLine>> \o f : f \in { g \in Framed : Len(g) = 2 } }

CutShort == { <<LnNoise>>, <<LnOk>>, <<LnOk, LnMore>> }

EngineOutputs == Framed \cup BlankFirst \cup CutShort

(***************************************************************************)
(* GTPEngine.communicate, as setup_engines([black, white]) calls it: for   *)
(* each of the three setup commands, for each of the two engines.          *)
(***************************************************************************)
\* a variant that sets the size before it resets the board
setup_commands_size_first == <<"boardsize", "clear_board", "komi">>

\* setup_engines: setup_commands (the arguments are added by SetupArg)
setup_commands == <<"clear_board", "boardsize", "komi">>

CommEngines == <<1, 2>>

CurEngine == CommEngines[eng_i]

CurThread == <<cmd_i, eng_i>>

CommInit ==
    /\ pipe = [e \in {1, 2} |-> <<>>]
    /\ eof = [e \in {1, 2} |-> FALSE]
    /\ pending = [e \in {1, 2} |-> 0]
    /\ threads = {}
    /\ cpc = "call"
    /\ cmd_i = 1
    /\ eng_i = 1
    /\ lines = <<>>
    /\ response_started = FALSE
    /\ line = <<>>
    /\ consumed = <<>>
    /\ LoopIdle
    /\ SgfIdle

\* write_command: t = threading.Thread(...); t.start()
ThreadStart ==
    /\ cpc = "call"
    /\ threads' = threads \cup {CurThread}
    /\ cpc' = "join"
    /\ UNCHANGED <<confVars, loopVars, sgfVars>>
    /\ UNCHANGED <<pipe, eof, pending, cmd_i, eng_i, lines, response_started, line, consumed>>

\* write_command_target, run by the writer thread: write and flush the
\* command.  On the stdin of an engine that has exited the write raises
\* inside the thread, which ends without the command being delivered.
WriterRun ==
    \E t \in threads :
        /\ pending' = IF eof[CommEngines[t[2]]]
                        THEN pending
                        ELSE [pending EXCEPT ![CommEngines[t[2]]] = @ + 1]
        /\ threads' = threads \ {t}
        /\ UNCHANGED <<confVars, loopVars, sgfVars>>
        /\ UNCHANGED <<pipe, eof, cpc, cmd_i, eng_i, lines, response_started, line, consumed>>

\* t.join() returns once the writer thread has finished
JoinReturns(t) == t \notin threads

\* write_command: t.join(); then read_response_lines starts with
\* lines = [] and response_started = False
Join ==
    /\ cpc = "join"
    /\ JoinReturns(CurThread)
    /\ cpc' = "read"
    /\ lines' = <<>>
    /\ response_started' = FALSE
    /\ consumed' = <<>>
    /\ UNCHANGED <<confVars, loopVars, sgfVars>>
    /\ UNCHANGED <<pipe, eof, pending, threads, cmd_i, eng_i, line>>

\* read_response_lines: line = stdout.readline()...  The call blocks while
\* the pipe is empty and open; at end of file it returns the empty string.
\* (proc.stdout is a pipe, never None, so the guard before it never returns.)
ReadLine ==
    /\ cpc = "read"
    /\ \/ /\ pipe[CurEngine] /= <<>>
          /\ line' = Head(pipe[CurEngine])
          /\ pipe' = [pipe EXCEPT ![CurEngine] = Tail(@)]
          /\ consumed' = Append(consumed, Head(pipe[CurEngine]))
       \/ /\ pipe[CurEngine] = <<>>
          /\ eof[CurEngine]
          /\ line' = EofLine
          /\ UNCHANGED <<pipe, consumed>>
    /\ cpc' = "test"
    /\ UNCHANGED <<confVars, loopVars, sgfVars>>
    /\ UNCHANGED <<eof, pending, threads, cmd_i, eng_i, lines, response_started>>

\* if line.startswith("=") or line.startswith("?"): response_started = True
StartedAfter(started, l) == started \/ StartsWith(l, "=") \/ StartsWith(l, "?")

\* a variant that collects every line read, marker seen or not
LinesAfterUnfiltered(ls, started, l) == Append(ls, l)

\* if response_started: lines.append(line)
LinesAfter(ls, started, l) == IF started THEN Append(ls, l) ELSE ls

\* if line == "\n": break
IsTerminator(l) == l = NewLine

\* the number of "" entries at the end of ls
RECURSIVE EofRun(_)
EofRun(ls) ==
    IF ls /= <<>> /\ ls[Len(ls)] = EofLine
      THEN 1 + EofRun(SubSeq(ls, 1, Len(ls) - 1))
      ELSE 0

\* lines, with its trailing "" entries counted up to MaxEofRun only
Capped(ls) == IF EofRun(ls) > MaxEofRun THEN SubSeq(ls, 1, Len(ls) - 1) ELSE ls

\* the body of the while loop after readline
TestLine ==
    /\ cpc = "test"
    /\ response_started' = StartedAfter(response_started, line)
    /\ lines' = Capped(LinesAfter(lines, response_started', line))
    /\ cpc' = IF IsTerminator(line) THEN "return" ELSE "read"
    /\ UNCHANGED <<confVars, loopVars, sgfVars>>
    /\ UNCHANGED <<pipe, eof, pending, threads, cmd_i, eng_i, line, consumed>>

\* read_response_lines returns lines (the value of lines in this state),
\* communicate returns them, setup_engines ignores them, and the loops of
\* send_command_to_engines and setup_engines move on; the locals of
\* read_response_lines are gone
Return ==
    /\ cpc = "return"
    /\ lines' = <<>>
    /\ response_started' = FALSE
    /\ line' = <<>>
    /\ consumed' = <<>>
    /\ IF eng_i < Len(CommEngines)
         THEN /\ eng_i' = eng_i + 1
              /\ cmd_i' = cmd_i
              /\ cpc' = "call"
         ELSE IF cmd_i < Len(setup_commands)
                THEN /\ eng_i' = 1
                     /\ cmd_i' = cmd_i + 1
                     /\ cpc' = "call"
                ELSE /\ cpc' = "done"
                     /\ UNCHANGED <<eng_i, cmd_i>>
    /\ UNCHANGED <<confVars, loopVars, sgfVars>>
    /\ UNCHANGED <<pipe, eof, pending, threads>>

\* an engine answers the oldest command it has received
EngineRespond ==
    \E e \in {1, 2}, out \in EngineOutputs :
        /\ pending[e] > 0
        /\ ~eof[e]
        /\ pending' = [pending EXCEPT ![e] = @ - 1]
        /\ pipe' = [pipe EXCEPT ![e] = @ \o out]
        /\ UNCHANGED <<confVars, loopVars, sgfVars>>
        /\ UNCHANGED <<eof, threads, cpc, cmd_i, eng_i, lines, response_started, line, consumed>>

\* an engine process exits: its stdout reaches end of file
EngineExit ==
    \E e \in {1, 2} :
        /\ ~eof[e]
        /\ eof' = [eof EXCEPT ![e] = TRUE]
        /\ UNCHANGED <<confVars, loopVars, sgfVars>>
        /\ UNCHANGED <<pipe, pending, threads, cpc, cmd_i, eng_i, lines, response_started, line, consumed>>

NextComm ==
    \/ ThreadStart
    \/ WriterRun
    \/ Join
    \/ ReadLine
    \/ TestLine
    \/ Return
    \/ EngineRespond
    \/ EngineExit

SpecComm == CommInit /\ [][NextComm]_vars

\* every thread of control that can take a step eventually takes one
FairSpecComm == SpecComm /\ WF_vars(NextComm)

(***************************************************************************)
(* Spec: game_loop and the try block around it.  A call of communicate is  *)
(* one step part: the command is appended to log and the response lines    *)
(* returned are an input, drawn from the answers below.  The empty list is *)
(* what read_response_lines returns when the first line it reads is empty. *)
(***************************************************************************)
MaxGames == 2
MaxMoves == 3
\* the seconds the clock of now_jst can show during a run: 0..MaxClock
MaxClock == 1

\* args["size"] (the default)
Size == 19

LnPass == <<"=", " ", "p", "a", "s", "s", "\n">>
LnPassUpper == <<"=", " ", "P", "A", "S", "S", "\n">>
LnResign == <<"=", " ", "r", "e", "s", "i", "g", "n", "\n">>
LnResignMixed == <<"=", " ", "R", "e", "s", "i", "g", "n", "\n">>
LnD4 == <<"=", " ", "D", "4", "\n">>
LnQ16 == <<"=", " ", "q", "1", "6", "\n">>
LnScoreLower == <<"=", " ", "b", "+", "0", ".", "5", "\n">>
LnScoreVoid == <<"=", " ", "V", "o", "i", "d", "\n">>
LnScoreW == <<"=", "W", "+", "2", "\n">>

\* what communicate can return for genmove
GenmoveAnswers ==
    { <<l, NewLine>> : l \in {LnPass, LnPassUpper, LnResign, LnResignMixed, LnD4, LnQ16, LnErr} }
    \cup {<<>>}

\* what communicate can return for final_score
FinalScoreAnswers ==
    { <<LnScoreLower, NewLine>>, <<LnScoreVoid, NewLine>>, <<LnScoreW, LnMore, NewLine>>, <<>> }

\* engine_1_name, engine_2_name (the defaults of --black_name, --white_name), "referee"
EngineName(e) == IF e = 1 THEN <<"b">> ELSE IF e = 2 THEN <<"w">> ELSE <<"r", "e", "f">>

\* all_engines
all_engines == IF has_referee THEN <<1, 2, 3>> ELSE <<1, 2>>

\* one command sent by communicate
Cmd(to, name, color, arg, phase) ==
    [to |-> to, name |-> name, color |-> color, arg |-> arg, phase |-> phase]

SetupArg(name) ==
    IF name = "boardsize" THEN ToDigits(Size) ELSE IF name = "komi" THEN StrKomi ELSE <<>>

\* setup_engines(engines): every setup command in turn, each to every engine
SetupLog(engines, phase) ==
    [i \in 1..(Len(setup_commands) * Len(engines)) |->
        Cmd(engines[((i - 1) % Len(engines)) + 1],
            setup_commands[((i - 1) \div Len(engines)) + 1], "",
            SetupArg(setup_commands[((i - 1) \div Len(engines)) + 1]), phase)]

\* a variant that replays every entry of the move list
IsReplayedAlways(m) == TRUE

\* synchronize_engine: if move != "pass"
IsReplayed(m) == m[2] /= StrPass

\* synchronize_engine(engine, move_history)
RECURSIVE SyncLog(_, _)
SyncLog(engine, history) ==
    IF history = <<>> THEN <<>>
    ELSE (IF IsReplayed(Head(history))
            THEN <<Cmd(engine, "play", Head(history)[1], Head(history)[2], "score")>>
            ELSE <<>>)
         \o SyncLog(engine, Tail(history))

\* send_command_to_engines("quit", engines)
QuitLog(engines) == [i \in 1..Len(engines) |-> Cmd(engines[i], "quit", "", <<>>, "quit")]

\* format_response_line(response_lines), where response_lines is not empty
format_response_line(resp_lines) == StripLeadingSpaceEq(RStrip(resp_lines[1]))

\* format_response_line(...).lower()
MoveOf(resp_lines) == Lower(format_response_line(resp_lines))

ColorOf(n) == IF n % 2 = 1 THEN "b" ELSE "w"

now_turn(n) == IF n % 2 = 1 THEN black ELSE white

the_other(n) == IF n % 2 = 1 THEN white ELSE black

\* a variant that tells the mover its own move
PlayToMover(n) == now_turn(n)

\* the engine the move is passed on to: the_other.communicate(f"play ...")
PlayTarget(n) == the_other(n)

\* a variant that credits the win to the resigning color
ResignResultSwapped(color) == IF color = "b" THEN StrBR ELSE StrWR

\* sgf.re of a resignation by color
ResignResult(color) == IF color = "b" THEN StrWR ELSE StrBR

IsResign(move) == move = StrResign

IsPass(move) == move = StrPass

\* a variant that scores on any pass
ScoringOnAnyPass(flag) == TRUE

\* if last_move_is_pass: (a pass has just been appended)
ScoringTriggered(flag) == flag

\* a variant that leaves the flag as it was
FlagAfterMoveKept(flag) == flag

\* last_move_is_pass = False, after a move that is not a pass
FlagAfterMove(flag) == FALSE

\* a variant that never hands Black over
NextBlackKept == black

\* the bindings of the next game: if alternate: swap
NextBlack == IF alternate THEN white ELSE black

NextWhite == IF alternate THEN black ELSE white

\* the state when game_loop is called, for --games up to g and --maxmoves up to m
InitUpTo(g, m) ==
    /\ alternate \in BOOLEAN
    /\ has_referee \in BOOLEAN
    /\ games \in 0..g
    /\ maxmoves \in 0..m
    /\ black = 1
    /\ white = 2
    /\ referee = IF has_referee THEN 3 ELSE 1
    /\ game_num = 1
    /\ move_num = 0
    /\ move_history = <<>>
    /\ last_move_is_pass = FALSE
    /\ response_lines = <<>>
    /\ gpc = IF games >= 1 THEN "setup" ELSE "quit"
    /\ log = <<>>
    /\ files = <<>>
    /\ proc = [e \in (IF has_referee THEN {1, 2, 3} ELSE {1, 2}) |-> "running"]
    /\ exit_status = "none"
    /\ clock = 0
    /\ interrupted = FALSE
    /\ wait_i = 1
    /\ SgfIdle
    /\ CommIdle

Init == InitUpTo(MaxGames, MaxMoves)

\* the head of the game loop: setup_engines([black, white]), a new SGF
\* object, an empty move_history
StartGame ==
    /\ gpc = "setup"
    /\ log' = SetupLog(<<black, white>>, "setup")
    /\ sgf' = [NewSGF EXCEPT !.sz = Size, !.km = StrKomi,
                             !.pb = EngineName(black), !.pw = EngineName(white)]
    /\ move_history' = <<>>
    /\ last_move_is_pass' = FALSE
    /\ IF maxmoves >= 1
         THEN move_num' = 1 /\ gpc' = "turn"
         ELSE move_num' = 0 /\ gpc' = "finish"
    /\ UNCHANGED <<commVars, confVars, black, white, referee, game_num, response_lines,
                   files, proc, exit_status, clock, sigVars, joined, wire>>

\* one iteration of the turn loop, up to its break, to the call of
\* setup_engines([referee]), or to the end of the iteration
Genmove ==
    /\ gpc = "turn"
    /\ \E response \in GenmoveAnswers :
        LET color == ColorOf(move_num)
            asked == Append(log, Cmd(now_turn(move_num), "genmove", color, <<>>, "turn"))
            move == MoveOf(response)
            more == move_num < maxmoves
        IN  /\ response_lines' = response
            /\ IF response = <<>>
                 THEN \* response_lines[0] raises IndexError
                      /\ log' = asked
                      /\ gpc' = "fault"
                      /\ UNCHANGED <<sgf, move_history, last_move_is_pass, move_num>>
                 ELSE IF IsResign(move)
                 THEN /\ log' = asked
                      /\ sgf' = [sgf EXCEPT !.re = ResignResult(color)]
                      /\ gpc' = "finish"
                      /\ UNCHANGED <<move_history, last_move_is_pass, move_num>>
                 ELSE IF IsPass(move)
                 THEN /\ log' = asked
                      /\ move_history' = Append(move_history, <<color, move>>)
                      /\ IF ScoringTriggered(last_move_is_pass)
                           THEN /\ gpc' = "score"
                                /\ UNCHANGED <<last_move_is_pass, move_num>>
                           ELSE /\ last_move_is_pass' = TRUE
                                /\ move_num' = IF more THEN move_num + 1 ELSE move_num
                                /\ gpc' = IF more THEN "turn" ELSE "finish"
                      /\ UNCHANGED sgf
                 ELSE /\ log' = Append(asked, Cmd(PlayTarget(move_num), "play", color, move, "turn"))
                      /\ move_history' = Append(move_history, <<color, move>>)
                      /\ last_move_is_pass' = FlagAfterMove(last_move_is_pass)
                      /\ move_num' = IF more THEN move_num + 1 ELSE move_num
                      /\ gpc' = IF more THEN "turn" ELSE "finish"
                      /\ UNCHANGED sgf
    /\ UNCHANGED <<commVars, confVars, black, white, referee, game_num, files, proc,
                   exit_status, clock, sigVars, joined, wire>>

\* genmove sent to an engine whose process has exited: the write fails inside
\* the writer thread, where the exception ends that thread only, and
\* read_response_lines then reads "" at end of file for ever, so communicate
\* does not return
GenmoveToExitedEngine ==
    /\ gpc = "turn"
    /\ log' = Append(log, Cmd(now_turn(move_num), "genmove", ColorOf(move_num), <<>>, "turn"))
    /\ proc' = [proc EXCEPT ![now_turn(move_num)] = "exited"]
    /\ response_lines' = <<>>
    /\ gpc' = "hung"
    /\ UNCHANGED <<commVars, confVars, sgfVars, black, white, referee, game_num, move_num,
                   move_history, last_move_is_pass, files, exit_status, clock, sigVars>>

\* after the second pass: setup_engines([referee]), synchronize_engine,
\* final_score, sgf.re, break
Score ==
    /\ gpc = "score"
    /\ \E response \in FinalScoreAnswers :
        /\ response_lines' = response
        /\ log' = log \o SetupLog(<<referee>>, "score") \o SyncLog(referee, move_history)
                      \o <<Cmd(referee, "final_score", "", <<>>, "score")>>
        /\ IF response = <<>>
             THEN gpc' = "fault" /\ UNCHANGED sgf
             ELSE /\ sgf' = [sgf EXCEPT !.re = Upper(format_response_line(response))]
                  /\ gpc' = "finish"
    /\ UNCHANGED <<commVars, confVars, black, white, referee, game_num, move_num,
                   move_history, last_move_is_pass, files, proc, exit_status, clock,
                   sigVars, joined, wire>>

\* for color, move in move_history: sgf.add_move_from_genmove_return(color, move),
\* up to the first call that raises
RECURSIVE AddMoves(_, _)
AddMoves(s, history) ==
    IF history = <<>> \/ ConvertFaults(s.sz, Head(history)[2]) THEN s
    ELSE AddMoves(add_move_from_genmove_return(s, Head(history)[1], Head(history)[2]),
                  Tail(history))

\* a variant that overwrites the result
DefaultResultAlways(re) == StrVoid

\* if sgf.re is None: sgf.re = "Void"
DefaultResult(re) == IF re = NoneVal THEN StrVoid ELSE re

\* if self.pb and self.pw: (neither None nor empty)
Truthy(x) == x /= NoneVal /\ x /= <<>>

\* zlib.crc32(data_for_hash.encode()): a function of the document alone.  The
\* model keeps the document where the code keeps its 32-bit checksum, so equal
\* documents have equal checksums and no two different documents share one
\* (the code's checksum can also collide on different documents).
crc32(data_for_hash) == data_for_hash

\* SGF.gen_file_name at second now: "<now>_<pb>-<pw>_<h>.sgf" or "<now>_<h>.sgf"
gen_file_name(s, data_for_hash, now) ==
    [stamp |-> now,
     names |-> IF Truthy(s.pb) /\ Truthy(s.pw) THEN <<s.pb, s.pw>> ELSE <<>>,
     h |-> crc32(data_for_hash)]

\* SGF.dump_in_dir at second now: the path opened for writing and the text written
Dumped(s, now) ==
    [name |-> gen_file_name(s, join_all_data(s), now), data |-> join_all_data(s)]

\* the directory after the writes ws: open(file_path, "w") replaces a file of
\* the same name, so a name holds the text of the last write to it
Directory(ws) ==
    [n \in {ws[i].name : i \in 1..Len(ws)} |->
        ws[CHOOSE i \in 1..Len(ws) :
               /\ ws[i].name = n
               /\ \A j \in (i + 1)..Len(ws) : ws[j].name /= n].data]

\* after the turn loop: the default result, the date, the conversion of the
\* moves, the dump of the record, the swap of the sides, the next game
FinishGame ==
    /\ gpc = "finish"
    /\ \E now \in clock..MaxClock :
       LET dated == [sgf EXCEPT !.re = DefaultResult(sgf.re),
                                !.dt = StrDate]
           filled == AddMoves(dated, move_history)
       IN  /\ sgf' = filled
           /\ clock' = now
           /\ IF Len(filled.moves) < Len(move_history)
                THEN /\ gpc' = "fault"
                     /\ UNCHANGED <<files, black, white, game_num>>
                ELSE /\ files' = Append(files, Dumped(filled, now))
                     /\ black' = NextBlack
                     /\ white' = NextWhite
                     /\ game_num' = IF game_num < games THEN game_num + 1 ELSE game_num
                     /\ gpc' = IF game_num < games THEN "setup" ELSE "quit"
    /\ UNCHANGED <<commVars, confVars, referee, move_num, move_history,
                   last_move_is_pass, response_lines, log, proc, exit_status, sigVars,
                   joined, wire>>

\* quit_engines(all_engines) and the end of the program
QuitEngines ==
    /\ gpc = "quit"
    /\ log' = log \o QuitLog(all_engines)
    /\ proc' = [e \in DOMAIN proc |-> "exited"]
    /\ exit_status' = "0"
    /\ gpc' = "exited"
    /\ UNCHANGED <<commVars, confVars, sgfVars, black, white, referee, game_num, move_num,
                   move_history, last_move_is_pass, response_lines, files, clock, sigVars>>

\* except Exception: kill every engine, sys.exit(1)
ExceptHandler ==
    /\ gpc = "fault"
    /\ proc' = [e \in DOMAIN proc |-> "killed"]
    /\ exit_status' = "1"
    /\ gpc' = "exited"
    /\ UNCHANGED <<commVars, confVars, sgfVars, black, white, referee, game_num, move_num,
                   move_history, last_move_is_pass, response_lines, log, files, clock,
                   sigVars>>

Next ==
    \/ StartGame
    \/ Genmove
    \/ GenmoveToExitedEngine
    \/ Score
    \/ FinishGame
    \/ QuitEngines
    \/ ExceptHandler

Spec == Init /\ [][Next]_vars

(***************************************************************************)
(* SpecSignal: Spec with an external interrupt signal, which raises        *)
(* KeyboardInterrupt in the main thread wherever it is inside the try      *)
(* block (a blocking read, join or wait is interrupted).                   *)
(***************************************************************************)
MaxSignalGames == 1
MaxSignalMoves == 2

SignalInit == InitUpTo(MaxSignalGames, MaxSignalMoves)

\* a variant whose wait loop neither sees an exit nor kills
WaitOutcomesNone(st) == {st}

\* engine.proc.wait(wait_sec) on a process in state st: it is found exited,
\* or it exits within wait_sec, or TimeoutExpired is raised and it is killed
WaitOutcomes(st) == IF st = "exited" THEN {"exited"} ELSE {"exited", "killed"}

\* the signal arrives during game_loop or quit_engines: except
\* KeyboardInterrupt, send_signal(SIGINT) to every engine (a process that has
\* exited is left alone)
Interrupt ==
    /\ gpc \in {"setup", "turn", "score", "finish", "quit", "hung"}
    /\ interrupted' = TRUE
    /\ proc' = [e \in DOMAIN proc |-> IF proc[e] = "running" THEN "signalled" ELSE proc[e]]
    /\ wait_i' = 1
    /\ gpc' = "wait"
    /\ UNCHANGED <<commVars, confVars, sgfVars, black, white, referee, game_num, move_num,
                   move_history, last_move_is_pass, response_lines, log, files,
                   exit_status, clock>>

\* one iteration of the wait loop
Wait ==
    /\ gpc = "wait"
    /\ \E st \in WaitOutcomes(proc[all_engines[wait_i]]) :
           proc' = [proc EXCEPT ![all_engines[wait_i]] = st]
    /\ IF wait_i < Len(all_engines)
         THEN wait_i' = wait_i + 1 /\ gpc' = "wait"
         ELSE wait_i' = wait_i /\ gpc' = "sysexit"
    /\ UNCHANGED <<commVars, confVars, sgfVars, black, white, referee, game_num, move_num,
                   move_history, last_move_is_pass, response_lines, log, files,
                   exit_status, clock, interrupted>>

\* sys.exit() without an argument: status 0
SysExit ==
    /\ gpc = "sysexit"
    /\ exit_status' = "0"
    /\ gpc' = "exited"
    /\ UNCHANGED <<commVars, confVars, sgfVars, black, white, referee, game_num, move_num,
                   move_history, last_move_is_pass, response_lines, log, files, proc,
                   clock, sigVars>>

NextSignal ==
    \/ Next
    \/ Interrupt
    \/ Wait
    \/ SysExit

SpecSignal == SignalInit /\ [][NextSignal]_vars

\* the except block runs to its end once it is entered
FairSpecSignal == SpecSignal /\ WF_vars(Wait \/ SysExit)

(***************************************************************************)
(* Claims about GTPEngine (SpecComm, FairSpecComm).                        *)
(***************************************************************************)
IsMarker(l) == StartsWith(l, "=") \/ StartsWith(l, "?")

\* cs is: lines that are neither empty nor markers, then a marker line at
\* index i, then non-empty lines, then the empty line
FramedAt(cs, i) ==
    /\ i \in 1..(Len(cs) - 1)
    /\ \A j \in 1..(i - 1) : cs[j] /= NewLine /\ cs[j] /= EofLine /\ ~IsMarker(cs[j])
    /\ IsMarker(cs[i])
    /\ \A j \in (i + 1)..(Len(cs) - 1) : cs[j] /= NewLine /\ cs[j] /= EofLine
    /\ cs[Len(cs)] = NewLine

AtEndOfFile ==
    /\ cpc \in {"read", "test"}
    /\ eof[CurEngine]
    /\ pipe[CurEngine] = <<>>
    /\ cpc = "test" => line /= NewLine

\* C8: if the engine's output stream reaches end of file before a complete
\* framed response has been read, read_response_lines eventually returns
\* (and with it communicate) instead of looping for ever.
C8_ReadReturnsAtEof == AtEndOfFile ~> (cpc = "return")

\* C9: at most one command is in flight over all engine sessions: no two
\* writer threads exist at the same time, the writer thread has been joined
\* before the read of the response starts, and a command is written only
\* after the complete response to the previously written command has been
\* read (no engine has a command unanswered or output unread).
C9_OneCommandInFlight ==
    /\ Cardinality(threads) <= 1
    /\ cpc \in {"read", "test", "return"} => threads = {}
    /\ cpc = "call" =>
           \A e \in {1, 2} : pending[e] = 0 /\ pipe[e] = <<>>

(***************************************************************************)
(* Claims about class SGF (SpecJoin, SpecCoord).                           *)
(***************************************************************************)
\* the number of consecutive passes at the end of ms
TrailingPasses(ms) ==
    CHOOSE k \in 0..Len(ms) :
        /\ \A i \in (Len(ms) - k + 1)..Len(ms) : ms[i][2] = <<>>
        /\ k < Len(ms) => ms[Len(ms) - k][2] /= <<>>

\* the number of move nodes of a serialized move text
RECURSIVE NodeCount(_)
NodeCount(text) ==
    IF text = <<>> THEN 0
    ELSE (IF Head(text) = ";" THEN 1 ELSE 0) + NodeCount(Tail(text))

KeptMoves(ms) ==
    IF TrailingPasses(ms) >= 2 THEN Len(ms) - TrailingPasses(ms) ELSE Len(ms)

\* C6: with k the number of consecutive passes at the end of the move list,
\* join_all_data serializes exactly the first len - k moves in their order
\* when k >= 2 and all the moves when k is 0 or 1, and it leaves the stored
\* move list unchanged.
C6_TrailingPassesTrimmed ==
    [][joined' /= joined =>
          /\ sgf' = sgf
          /\ joined'.moves = moves_joined(SubSeq(sgf.moves, 1, KeptMoves(sgf.moves)))
          /\ NodeCount(joined'.moves) = KeptMoves(sgf.moves)]_vars

\* C6 witness: the list pass, move, pass, pass has been serialized as its
\* first two moves.
C6_Witness ==
    /\ Len(sgf.moves) = 4
    /\ sgf.moves[1][2] = <<>>
    /\ sgf.moves[2][2] /= <<>>
    /\ sgf.moves[3][2] = <<>>
    /\ sgf.moves[4][2] = <<>>
    /\ joined /= NoDoc
    /\ NodeCount(joined.moves) = 2
    /\ joined.moves = moves_joined(SubSeq(sgf.moves, 1, 2))

\* C7: on a board of size N (1..25) a wire coordinate with a column among the
\* first N letters of a..z without i and a row r in 1..N is appended as the
\* letter at the zero-based column index in a..z followed by the letter at
\* zero-based index N - r in a..z (j gives i, row N gives a); a pass is
\* appended as the empty coordinate; distinct wire coordinates of the board
\* give distinct persisted coordinates.
C7_WireToPersisted ==
    wire /= NoneVal =>
        /\ Len(sgf.moves) = 1
        /\ IF wire = StrPass
             THEN sgf.moves[1][2] = <<>>
             ELSE LET col == CHOOSE c \in 1..Len(SkipI) : SkipI[c] = wire[1]
                      r == IntVal(Tail(wire))
                      m == sgf.moves[1][2]
                  IN  /\ m = <<LowerAlpha[col], LowerAlpha[sgf.sz - r + 1]>>
                      /\ wire[1] = "j" => m[1] = "i"
                      /\ r = sgf.sz => m[2] = "a"
                      /\ \A w \in WireCoords(sgf.sz) \ {wire} :
                             ConvertedMove(sgf.sz, w) /= m

\* C7 witness: on the 19x19 board the wire coordinate j19 has been appended
\* as ia.
C7_Witness ==
    /\ sgf.sz = 19
    /\ wire = <<"j", "1", "9">>
    /\ sgf.moves = <<<<"b", <<"i", "a">>>>>>

(***************************************************************************)
(* Claims about game_loop (Spec).                                          *)
(***************************************************************************)
\* the commands of the current game sent in the turn loop (not by setup or scoring)
TurnLog == SelectSeq(log, LAMBDA c : c.phase = "turn")

NameCount(cmds, name) == Len(SelectSeq(cmds, LAMBDA c : c.name = name))

\* the index in cmds of the k-th genmove command
GenmoveAt(cmds, k) ==
    CHOOSE i \in 1..Len(cmds) :
        cmds[i].name = "genmove" /\ NameCount(SubSeq(cmds, 1, i), "genmove") = k

\* the current game is between its setup and the end of its turn loop or its abort
InGame == gpc \in {"turn", "score", "finish", "fault"} /\ sgf.dt = NoneVal

\* scoring has been triggered in the current game
Triggered == gpc = "score" \/ NameCount(log, "final_score") > 0

\* moves k - 1 and k of the move list are both passes
PassPair(k) == move_history[k - 1][2] = StrPass /\ move_history[k][2] = StrPass

\* genmove has been answered in the game, and every answer was a pass
AllPassed ==
    /\ move_history /= <<>>
    /\ NameCount(log, "genmove") = Len(move_history)
    /\ \A k \in 1..Len(move_history) : move_history[k][2] = StrPass

\* the referee has answered final_score and the result is set
Scored ==
    /\ gpc = "finish"
    /\ sgf.dt = NoneVal
    /\ NameCount(log, "final_score") > 0

\* the expected result for each answer to final_score of the model
ExpectedScore(first_line) ==
    IF first_line = LnScoreLower THEN <<"B", "+", "0", ".", "5">>
    ELSE IF first_line = LnScoreVoid THEN <<"V", "O", "I", "D">>
    ELSE <<"W", "+", "2">>

\* the part of C2 that does not depend on maxmoves
C2_Trigger ==
    gpc /= "idle" =>
        /\ Triggered <=> \E k \in 2..Len(move_history) : PassPair(k)
        /\ \A k \in 2..Len(move_history) : PassPair(k) => k = Len(move_history)
        /\ Triggered =>
              /\ NameCount(log, "genmove") = Len(move_history)
              /\ gpc /= "turn"
              /\ \A i \in 1..Len(log) :
                     log[i].name = "genmove" =>
                         \A j \in 1..i : log[j].phase /= "score"
        /\ Scored => sgf.re = ExpectedScore(response_lines[1])

\* C2 (as amended): scoring is triggered at ply n exactly when the moves
\* returned at plies n - 1 and n are both passes, and then no genmove is sent
\* after ply n; with two engines that always pass and maxmoves >= 2 the game
\* ends after exactly 2 genmove commands, the referee receives no play
\* command, and the result is the uppercased first-line token of the
\* referee's answer to final_score.
C2_MutualPass ==
    /\ C2_Trigger
    /\ (gpc = "finish" /\ sgf.dt = NoneVal /\ AllPassed /\ maxmoves >= 2) =>
           /\ NameCount(log, "genmove") = 2
           /\ NameCount(log, "play") = 0
           /\ NameCount(log, "final_score") = 1
           /\ sgf.re = ExpectedScore(response_lines[1])

\* C2 (as claimed): ... with two engines that always pass the game ends after
\* exactly 2 genmove commands (whatever maxmoves is), the referee receives no
\* play command, and the result is the uppercased first-line token of the
\* referee's answer to final_score.
C2_AlwaysTwoPlies ==
    /\ C2_Trigger
    /\ (gpc = "finish" /\ sgf.dt = NoneVal /\ AllPassed) =>
           /\ NameCount(log, "genmove") = 2
           /\ NameCount(log, "play") = 0
           /\ NameCount(log, "final_score") = 1
           /\ sgf.re = ExpectedScore(response_lines[1])

\* C2 witness: two passes in upper case have been answered, the referee (the
\* first engine) has been set up and asked for the score without any play
\* command, and the result is B+0.5 for the answer "= b+0.5".
C2_Witness ==
    /\ Scored
    /\ AllPassed
    /\ ~has_referee
    /\ response_lines[1] = LnScoreLower
    /\ sgf.re = <<"B", "+", "0", ".", "5">>
    /\ NameCount(log, "play") = 0
    /\ NameCount(log, "genmove") = 2

\* the last command sent is a genmove and its answer is a resignation
ResignAnswered ==
    /\ log /= <<>>
    /\ log[Len(log)].name = "genmove"
    /\ response_lines /= <<>>
    /\ response_lines[1] \in {LnResign, LnResignMixed}

\* the current game has been resigned
Resigned == sgf.re \in {StrWR, StrBR} /\ NameCount(log, "final_score") = 0 /\ gpc /= "idle"

\* C3: a genmove answered with resign in any letter case ends the game at
\* that ply with W+R if Black resigned and B+R if White did; the resignation
\* is not appended to the move list, no play command is sent for it and no
\* further genmove is sent in that game; a resignation at ply 1 gives W+R and
\* a record with zero moves; no entry of the move list or of the record is a
\* resignation.
C3_Resignation ==
    /\ \A i \in 1..Len(move_history) : move_history[i][2] /= StrResign
    /\ \A i \in 1..Len(sgf.moves) : Len(sgf.moves[i][2]) \in {0, 2}
    /\ ResignAnswered =>
          /\ gpc \notin {"turn", "score"}
          /\ sgf.re = IF log[Len(log)].color = "b" THEN <<"W", "+", "R">> ELSE <<"B", "+", "R">>
          /\ log[Len(log)].color = "b" <=> log[Len(log)].to = IF sgf.pb = <<"b">> THEN 1 ELSE 2
    /\ Resigned =>
          /\ gpc \notin {"turn", "score"}
          /\ NameCount(log, "genmove") = Len(move_history) + 1
          /\ NameCount(TurnLog, "play")
                 = Len(SelectSeq(move_history, LAMBDA m : m[2] /= StrPass))
          /\ TurnLog[Len(TurnLog)].name = "genmove"
          /\ NameCount(log, "genmove") = 1 =>
                 /\ sgf.re = <<"W", "+", "R">>
                 /\ move_history = <<>>
                 /\ sgf.moves = <<>>
                 /\ (sgf.dt /= NoneVal /\ gpc /= "fault" /\ exit_status /= "1") =>
                        /\ files /= <<>>
                        /\ files[Len(files)].data.moves = <<>>

\* C3 witness: Black resigned at ply 1 (answer "= Resign") and the record of
\* the game has been written with no move and the result W+R.
C3_Witness ==
    /\ ResignAnswered
    /\ response_lines[1] = LnResignMixed
    /\ NameCount(log, "genmove") = 1
    /\ move_history = <<>>
    /\ Len(files) = 1
    /\ files[1].data.moves = <<>>
    /\ \E i \in 1..Len(files[1].data.root) :
           files[1].data.root[i] = [id |-> "RE", v |-> <<"W", "+", "R">>]

\* the current game is over: its result is final and its date is set
GameOver == gpc /= "idle" /\ sgf.dt /= NoneVal

RootValue(doc, id) == doc.root[CHOOSE i \in 1..Len(doc.root) : doc.root[i].id = id].v

\* C5: with alternate-sides mode the engines bound to Black and White are
\* exchanged when a game has been recorded and at no other step; without it
\* the bindings never change; the referee is the same engine in every game
\* (the referee process, or the first engine when none is configured); the
\* player names in a record are those of the engines bound in that game.
C5_SidesAlternate ==
    [][/\ referee' = referee
       /\ referee = (IF has_referee THEN 3 ELSE 1)
       /\ IF files' /= files
            THEN /\ black' = (IF alternate THEN white ELSE black)
                 /\ white' = (IF alternate THEN black ELSE white)
                 /\ Len(files') = Len(files) + 1
                 /\ RootValue(files'[Len(files')].data, "PB") = EngineName(black)
                 /\ RootValue(files'[Len(files')].data, "PW") = EngineName(white)
            ELSE black' = black /\ white' = white
       /\ gpc = "setup" => (sgf'.pb = EngineName(black) /\ sgf'.pw = EngineName(white))
       /\ \A i \in 1..Len(log') :
              (i > Len(log) /\ log'[i].name = "genmove") =>
                  log'[i].to = (IF log'[i].color = "b" THEN black ELSE white)
      ]_vars

\* C5 witness: in alternate-sides mode the second game is being played with
\* engine_2 as Black and engine_1 as White, after a first game recorded with
\* the names of engine_1 as Black and engine_2 as White.
C5_Witness ==
    /\ alternate
    /\ has_referee
    /\ gpc = "turn"
    /\ Len(files) = 1
    /\ black = 2
    /\ white = 1
    /\ referee = 3
    /\ sgf.pb = <<"w">>
    /\ RootValue(files[1].data, "PB") = <<"b">>
    /\ NameCount(log, "genmove") = 1
    /\ log[Len(log)].to = 1

\* C10: in the turn loop every move that is neither a pass nor a resignation,
\* returned by the engine playing color c, is followed at once (before the
\* next genmove) by exactly one play command with color c and that move, sent
\* to the engine playing the other color; no play command goes to the engine
\* that generated the move, and none is sent for a pass or a resignation.
C10_PlayToTheOther ==
    InGame =>
        /\ NameCount(TurnLog, "genmove") \in {Len(move_history), Len(move_history) + 1}
        /\ NameCount(TurnLog, "play")
               = Len(SelectSeq(move_history, LAMBDA m : m[2] /= StrPass))
        /\ \A k \in 1..Len(move_history) :
               LET i == GenmoveAt(TurnLog, k)
                   mover == IF move_history[k][1] = "b" THEN black ELSE white
                   other == IF move_history[k][1] = "b" THEN white ELSE black
               IN  /\ TurnLog[i].to = mover
                   /\ TurnLog[i].color = move_history[k][1]
                   /\ IF move_history[k][2] = StrPass
                        THEN i < Len(TurnLog) => TurnLog[i + 1].name = "genmove"
                        ELSE /\ i < Len(TurnLog)
                             /\ TurnLog[i + 1]
                                    = Cmd(other, "play", move_history[k][1],
                                          move_history[k][2], "turn")
                             /\ TurnLog[i + 1].to /= mover
        /\ \A j \in 1..Len(TurnLog) :
               TurnLog[j].name = "play" =>
                   /\ j > 1
                   /\ TurnLog[j - 1].name = "genmove"
                   /\ TurnLog[j - 1].to /= TurnLog[j].to
                   /\ TurnLog[j].arg \notin {StrPass, StrResign}

\* C10 witness: Black's engine answered D4 and White's engine Q16; each move
\* was passed on to the other engine before the next genmove.
C10_Witness ==
    /\ InGame
    /\ Len(move_history) = 2
    /\ Len(TurnLog) = 4
    /\ TurnLog[2] = Cmd(white, "play", "b", <<"d", "4">>, "turn")
    /\ TurnLog[3].name = "genmove"
    /\ TurnLog[4] = Cmd(black, "play", "w", <<"q", "1", "6">>, "turn")

\* t is a board coordinate of a sz x sz board, in either letter case: a
\* column letter (i is skipped) and a row number from 1 to sz
IsBoardCoordinate(sz, t) ==
    /\ Len(t) >= 2
    /\ InSeq(LowerChar(t[1]), genmove_column_labels(sz))
    /\ IntOk(Tail(t))
    /\ IntVal(Tail(t)) \in 1..sz

\* C11: a pass answered in upper case is taken as a pass, and every play
\* command that carries a board coordinate carries it in upper case (D4,
\* never d4), whatever the letter case of the engine's answer.
C11_PlayCarriesUppercase ==
    /\ (/\ gpc \in {"turn", "score", "finish"}
        /\ sgf.dt = NoneVal
        /\ response_lines /= <<>>
        /\ response_lines[1] = LnPassUpper) =>
           /\ move_history /= <<>>
           /\ move_history[Len(move_history)][2] = <<"p", "a", "s", "s">>
    /\ \A i \in 1..Len(log) :
           (log[i].name = "play" /\ IsBoardCoordinate(Size, log[i].arg)) =>
               log[i].arg = Upper(log[i].arg)

\* the names of the files in the output directory
FileNames == DOMAIN Directory(files)

\* C13: the output directory holds as many files as records were written,
\* one per completed game: no write reuses the name of an earlier write.
C13_OneFilePerGame == Cardinality(FileNames) = Len(files)

\* the commands of log sent to engine e before the first genmove
BeforeFirstGenmove(e) ==
    LET first == IF NameCount(log, "genmove") = 0 THEN Len(log) + 1 ELSE GenmoveAt(log, 1)
    IN  SelectSeq(SubSeq(log, 1, first - 1), LAMBDA c : c.to = e)

\* C14: in every game, before its first genmove, each of the two playing
\* engines has received clear_board, boardsize 19 and komi 6.5, in this order
\* and each exactly once, since the previous game ended; in game 1 and in
\* every later game, with and without alternation of the sides.
C14_SetupBeforeFirstGenmove ==
    (gpc \in {"turn", "score", "finish", "fault", "hung"} /\ sgf.dt = NoneVal) =>
        \A e \in {black, white} :
            BeforeFirstGenmove(e)
                = << [to |-> e, name |-> "clear_board", color |-> "", arg |-> <<>>,
                      phase |-> "setup"],
                     [to |-> e, name |-> "boardsize", color |-> "", arg |-> <<"1", "9">>,
                      phase |-> "setup"],
                     [to |-> e, name |-> "komi", color |-> "", arg |-> <<"6", ".", "5">>,
                      phase |-> "setup"] >>

\* C14 witness: the second game of a run with alternation has had its first
\* genmove, sent to engine_2 as Black.
C14_Witness ==
    /\ alternate
    /\ game_num = 2
    /\ gpc = "turn"
    /\ black = 2
    /\ NameCount(log, "genmove") = 1
    /\ log[GenmoveAt(log, 1)].to = 2
    /\ Len(BeforeFirstGenmove(1)) = 3

\* the commands sent for scoring
ScoreLog == SelectSeq(log, LAMBDA c : c.phase = "score")

FaultOccurred == gpc \in {"fault", "hung"} \/ exit_status = "1"

\* C17: after a runtime fault the main thread is in the except block or the
\* program has exited with status 1 and every engine killed; no record has
\* been written for the aborted game and the earlier records are as they were.
C17_FaultsAbort ==
    FaultOccurred =>
        /\ gpc \in {"fault", "exited"}
        /\ gpc = "exited" => (exit_status = "1" /\ \A e \in DOMAIN proc : proc[e] = "killed")
        /\ Len(files) = game_num - 1

\* C18: an answer to genmove that is neither a pass, nor a resignation, nor
\* a board coordinate is never sent on in a play command, neither to the
\* other engine nor to the referee, and no genmove follows it.
C18_MalformedNeverSentOn ==
    /\ \A i \in 1..Len(log) :
           log[i].name = "play" => IsBoardCoordinate(Size, log[i].arg)
    /\ \A k \in 1..Len(move_history) :
           (~IsBoardCoordinate(Size, move_history[k][2])
               /\ move_history[k][2] /= <<"p", "a", "s", "s">>) =>
                   NameCount(TurnLog, "genmove") = k

\* C20: at the start of every ply last_move_is_pass holds exactly when the
\* move list is not empty and ends with a pass, and it is false at the first
\* ply of every game; the colors of the move list alternate from Black; two
\* consecutive passes are the last two entries of the move list; when scoring
\* is triggered the last two entries are passes of different colors.
C20_SingleFlag ==
    gpc /= "idle" =>
        /\ gpc = "turn" =>
               /\ last_move_is_pass <=>
                      /\ move_history /= <<>>
                      /\ move_history[Len(move_history)][2] = <<"p", "a", "s", "s">>
               /\ move_num = Len(move_history) + 1
               /\ move_num = 1 => ~last_move_is_pass
        /\ \A k \in 1..Len(move_history) :
               move_history[k][1] = (IF k % 2 = 1 THEN "b" ELSE "w")
        /\ \A k \in 2..Len(move_history) : PassPair(k) => k = Len(move_history)
        /\ Triggered =>
               /\ Len(move_history) >= 2
               /\ PassPair(Len(move_history))
               /\ move_history[Len(move_history) - 1][1] /= move_history[Len(move_history)][1]

\* C20 witness: the first game ended at maxmoves = 1 with a pass of Black,
\* which is its record's only move, and the second game is at its first ply
\* with the flag false.
C20_Witness ==
    /\ game_num = 2
    /\ gpc = "turn"
    /\ move_num = 1
    /\ ~last_move_is_pass
    /\ Len(files) = 1
    /\ files[1].data.moves = <<";", "B", "[", "]">>

(***************************************************************************)
(* Claims about the framing of a response (SpecComm).                      *)
(***************************************************************************)
\* C19: whenever read_response_lines returns while the engine's output is
\* still open, the result is not empty and starts with a marker line: an
\* empty line before the marker does not end the response.
C19_ResponseStartsAtMarker ==
    (cpc = "return" /\ ~eof[CurEngine]) => (lines /= <<>> /\ IsMarker(lines[1]))

(***************************************************************************)
(* Claims about the interrupt (SpecSignal, FairSpecSignal).                *)
(***************************************************************************)
\* C12: a run stopped by the interrupt signal exits with a status other than
\* 0, the status of a run that completed all its games.
C12_InterruptStatusDiffers == (interrupted /\ gpc = "exited") => exit_status /= "0"

\* every engine process has terminated and the program has exited
AllStopped ==
    /\ gpc = "exited"
    /\ \A e \in DOMAIN proc : proc[e] \in {"exited", "killed"}

\* C16: after the interrupt no further command is sent, every engine process
\* still running has been sent the signal, and eventually every engine
\* process has exited or has been killed and the program has exited,
\* whatever the engines do.
C16_InterruptStops ==
    /\ [][interrupted => log' = log]_vars
    /\ [](interrupted => \A e \in DOMAIN proc : proc[e] /= "running")
    /\ interrupted ~> AllStopped

\* C16 witness: with a referee process, the interrupt came during the turn
\* loop; the first engine exited within the grace period, the other two were
\* killed, and the program has exited.
C16_Witness ==
    /\ interrupted
    /\ has_referee
    /\ gpc = "exited"
    /\ NameCount(log, "genmove") = 1
    /\ proc = [e \in {1, 2, 3} |-> IF e = 1 THEN "exited" ELSE "killed"]

====
